---- MODULE Spec2Model ----
(***************************************************************************)
(* aaargs: a class-attribute front end for argparse.                       *)
(*                                                                         *)
(* The model follows one container class through its life: the class body  *)
(* creates Argument descriptors (Argument.__init__), the class statement   *)
(* runs ArgumentParser.__init_subclass__, and the finished class is used   *)
(* through parse_args, direct construction and attribute reads.            *)
(*                                                                         *)
(* Python values are written as strings: "None", "Empty" (zninit.Empty),   *)
(* "True", "False", "1" (the int), and any other string for a str value.   *)
(* A flag or command-line token is a record [pre, base]: "--a" is          *)
(* [pre |-> "--", base |-> "a"], the bare word "a" has pre = "".           *)
(***************************************************************************)
EXTENDS Naturals, Sequences, FiniteSets, TLC

\* Longest token list handed to parse_args.
MaxTokens == 2

None == "None"
Empty == "Empty"
PyTrue == "True"
PyFalse == "False"
PyOne == "1"

Names == {"a", "b"}

\* owner.__annotations__.get(name): no annotation, the string "bool", the type bool.
Annotations == {None, "bool", "<class 'bool'>"}

Flag(pre, base) == [pre |-> pre, base |-> base]
FlagChoices == {<<>>, <<Flag("--", "a")>>, <<Flag("-", "a")>>, <<Flag("--", "b")>>}
ActionChoices == {None, "store"}
DefaultChoices == {Empty, None, PyTrue, PyFalse, PyOne, "someone"}
RequiredChoices == {None, PyFalse, PyTrue}

TokenChoices == {Flag("--", "a"), Flag("-", "a"), Flag("--", "b"), Flag("", "v")}

\* Keywords of the class statement that the model tries.
KwKeys == {"description", "wrong_kwarg", "parse_args"}
NoKw == <<>>

ConfigFields ==
    {"prog", "usage", "description", "epilog", "parents", "formatter_class",
     "prefix_chars", "fromfile_prefix_chars", "argument_default",
     "conflict_handler", "add_help", "allow_abbrev"}

Methods == {"__init_subclass__", "get_parser", "parse_args"}

\* The class attributes ArgumentParser itself defines.
ClassDefaults ==
    [k \in ConfigFields \cup Methods |->
        CASE k = "formatter_class" -> "argparse.HelpFormatter"
          [] k = "prefix_chars" -> "-"
          [] k = "conflict_handler" -> "error"
          [] k \in {"add_help", "allow_abbrev"} -> PyTrue
          [] k \in Methods -> "<method>"
          [] OTHER -> None]

VARIABLES
    body,       \* the Argument descriptors of the class, in declaration order
    pc,         \* "body": the class body runs; "defined": the class exists;
                \* "returned": a call on the class has returned or raised;
                \* "failed": the class statement raised; "aborted": the body raised
    clsattrs,   \* the class's configuration fields and methods
    init,       \* the generated __init__: names without default, defaults of the rest
    call,       \* the last operation and its input
    err,        \* what the last operation raised, or "none"
    ret,        \* <<instance>> returned by the last parse_args or construction, else <<>>
    parsed,     \* <<namespace>> the delegated parser produced in the last parse_args
    missing,    \* the names listed in the last AttributeError of parse_args
    declared,   \* history: name -> the arguments its Argument(...) call was given
    firstRead   \* history: name -> outcome of the first read of the attribute

vars == <<body, pc, clsattrs, init, call, err, ret, parsed, missing, declared, firstRead>>

----------------------------------------------------------------------------
\* Python helpers

\* x == y in Python: bool is an int, so 1 == True.
PyEq(x, y) ==
    \/ x = y
    \/ {x, y} = {PyOne, PyTrue}

\* x in (t1, t2, ...)
PyIn(x, tuple) == \E y \in tuple : PyEq(x, y)

Truthy(x) == x \notin {None, PyFalse}

SeqToSet(s) == {s[i] : i \in 1..Len(s)}

BodyNames(b) == {b[i].name : i \in 1..Len(b)}

----------------------------------------------------------------------------
\* Argument

\* required=True together with positional=True slips through.
CheckInputNoCheck(d) == "none"

CheckInput(d) ==
    IF Truthy(d.options.required) /\ d.positional THEN "TypeError" ELSE "none"

\* An unspecified default is kept as the sentinel instead of becoming None.
InitDefaultKeepsEmpty(default, required) ==
    IF Truthy(required)
    THEN IF PyIn(default, {Empty, None}) THEN Empty ELSE "raise TypeError"
    ELSE default

\* The default after the first branch of Argument.__init__.
InitDefault(default, required) ==
    IF Truthy(required)
    THEN IF PyIn(default, {Empty, None}) THEN Empty ELSE "raise TypeError"
    ELSE IF default = Empty THEN None ELSE default

\* Argument(*flags, action=, default=, required=, positional=) bound to `name`
\* with annotation `ann`: [err, obj].
ArgumentInit(name, ann, flags, action, default, required, positional) ==
    LET dflt == InitDefault(default, required)
        obj == [name |-> name,
                ann |-> ann,
                name_or_flags |-> flags,
                positional |-> positional,
                options |-> [action |-> action, default |-> dflt, required |-> required],
                default |-> dflt]
    IN IF dflt = "raise TypeError"
       THEN [err |-> "TypeError", obj |-> obj]
       ELSE [err |-> CheckInput(obj), obj |-> obj]

IsBoolean(d) == d.ann \in {"bool", "<class 'bool'>"}

\* The flag-style action is never set.
HandleBooleanAnnotationNoStoreTrue(d) ==
    IF IsBoolean(d) /\ d.options.action = None
    THEN IF Len(d.name_or_flags) = 0
         THEN IF d.positional
              THEN [err |-> "TypeError", obj |-> d]
              ELSE IF ~PyIn(d.default, {PyTrue, PyFalse, None, Empty})
                   THEN [err |-> "ValueError", obj |-> d]
                   ELSE [err |-> "none",
                         obj |-> [d EXCEPT !.name_or_flags = <<Flag("--", d.name)>>]]
         ELSE [err |-> "none", obj |-> d]
    ELSE [err |-> "none", obj |-> d]

\* The positional check is dropped.
HandleBooleanAnnotationNoPositionalCheck(d) ==
    IF IsBoolean(d) /\ d.options.action = None
    THEN LET d1 == [d EXCEPT !.options.action = "store_true"]
         IN IF Len(d.name_or_flags) = 0
            THEN IF ~PyIn(d.default, {PyTrue, PyFalse, None, Empty})
                 THEN [err |-> "ValueError", obj |-> d1]
                 ELSE [err |-> "none",
                       obj |-> [d1 EXCEPT !.name_or_flags = <<Flag("--", d.name)>>]]
            ELSE [err |-> "none", obj |-> d1]
    ELSE [err |-> "none", obj |-> d]

HandleBooleanAnnotation(d) ==
    IF IsBoolean(d) /\ d.options.action = None
    THEN LET d1 == [d EXCEPT !.options.action = "store_true"]
         IN IF Len(d.name_or_flags) = 0
            THEN IF d.positional
                 THEN [err |-> "TypeError", obj |-> d1]
                 ELSE IF ~PyIn(d.default, {PyTrue, PyFalse, None, Empty})
                      THEN [err |-> "ValueError", obj |-> d1]
                      ELSE [err |-> "none",
                            obj |-> [d1 EXCEPT !.name_or_flags = <<Flag("--", d.name)>>]]
            ELSE [err |-> "none", obj |-> d1]
    ELSE [err |-> "none", obj |-> d]

\* The inferred flag is always the optional form.
InferFlagsAlwaysOptional(d) ==
    IF Len(d.name_or_flags) = 0
    THEN [d EXCEPT !.name_or_flags = <<Flag("--", d.name)>>]
    ELSE d

\* name_or_flags = (name if positional else f"--{name}",) when none were given
InferFlags(d) ==
    IF Len(d.name_or_flags) = 0
    THEN [d EXCEPT !.name_or_flags =
                      <<IF d.positional THEN Flag("", d.name) ELSE Flag("--", d.name)>>]
    ELSE d

\* _default = False for a boolean annotation without a usable default
BooleanDefault(d) ==
    IF IsBoolean(d) /\ PyIn(d.default, {None, Empty})
    THEN [d EXCEPT !.default = PyFalse]
    ELSE d

\* Argument.__get__(None, owner): [err, obj]; obj is the descriptor afterwards.
Get(d) ==
    LET h == HandleBooleanAnnotation(d)
    IN IF h.err # "none"
       THEN h
       ELSE [err |-> "none", obj |-> BooleanDefault(InferFlags(h.obj))]

----------------------------------------------------------------------------
\* The container class

\* cls._get_descriptors(): getattr(cls, name) for each declared Argument, so
\* every descriptor is read; the pass stops at the first read that raises.
\* [err, body, at]: `at` is the index of the read that raised, 0 if none did.
RECURSIVE ReadFrom(_, _)
ReadFrom(b, i) ==
    IF i > Len(b)
    THEN [err |-> "none", body |-> b, at |-> 0]
    ELSE LET g == Get(b[i])
         IN IF g.err # "none"
            THEN [err |-> g.err, body |-> [b EXCEPT ![i] = g.obj], at |-> i]
            ELSE ReadFrom([b EXCEPT ![i] = g.obj], i + 1)

GetDescriptors(b) == ReadFrom(b, 1)

\* The history of first reads after a pass r over body b.
FirstReadAfter(fr, b, r) ==
    [n \in Names |->
        IF fr[n] # "unread" \/ n \notin BodyNames(b)
        THEN fr[n]
        ELSE LET i == CHOOSE j \in 1..Len(b) : b[j].name = n
             IN IF r.at = 0 \/ i < r.at THEN "ok"
                ELSE IF i = r.at THEN r.err
                ELSE "unread"]

\* The generated __init__ of the class: the descriptors whose default is the
\* sentinel must be supplied, the others fall back to their default.
BuildInit(b) ==
    [required |-> {b[i].name : i \in {j \in 1..Len(b) : b[j].default = Empty}},
     defaults |-> [n \in {b[i].name : i \in {j \in 1..Len(b) : b[j].default # Empty}} |->
                      (CHOOSE d \in SeqToSet(b) : d.name = n).default]]

\* cls(**kwargs): [err, inst]; inst is <<instance>> or <<>>.
CallInit(in, kwargs) ==
    LET known == in.required \cup DOMAIN in.defaults
        extras == DOMAIN kwargs \ known
        lacking == in.required \ DOMAIN kwargs
    IN IF extras # {} \/ lacking # {}
       THEN [err |-> "TypeError", inst |-> <<>>]
       ELSE [err |-> "none",
             inst |-> <<[n \in known |->
                           IF n \in DOMAIN kwargs THEN kwargs[n] ELSE in.defaults[n]]>>]

\* dir(cls), as far as the keywords of the model reach.
Dir(attrs, b) == DOMAIN attrs \cup BodyNames(b)

\* `key in dir(cls)`
KeywordAccepted(key, attrs, b) == key \in Dir(attrs, b)

----------------------------------------------------------------------------
\* The delegated parser (argparse)

\* _ArgumentOptions.get_dict(): the options that are not None
GetDict(options) ==
    [k \in {f \in DOMAIN options : options[f] # None} |-> options[k]]

IsPositionalFlags(flags) == Len(flags) = 1 /\ flags[1].pre = ""

\* argparse's dest: the first long option string, else the first one, stripped
\* of its prefix characters.
DestOf(flags) ==
    IF \E i \in 1..Len(flags) : flags[i].pre = "--"
    THEN flags[CHOOSE i \in 1..Len(flags) :
                  /\ flags[i].pre = "--"
                  /\ \A j \in 1..(i - 1) : flags[j].pre # "--"].base
    ELSE flags[1].base

\* parser.add_argument(*name_or_flags, **options.get_dict()) as the parser keeps it.
ParserAction(d) ==
    LET kw == GetDict(d.options)
        act == IF "action" \in DOMAIN kw THEN kw.action ELSE "store"
        pos == IsPositionalFlags(d.name_or_flags)
    IN [option_strings |-> IF pos THEN {} ELSE SeqToSet(d.name_or_flags),
        positional |-> pos,
        dest |-> DestOf(d.name_or_flags),
        action |-> act,
        default |-> IF "default" \in DOMAIN kw THEN kw.default
                    ELSE IF act = "store_true" THEN PyFalse ELSE None,
        required |-> IF pos THEN TRUE
                     ELSE "required" \in DOMAIN kw /\ Truthy(kw.required)]

\* What add_argument raises for descriptor d given the actions registered so far.
AddArgumentError(acts, d) ==
    LET kw == GetDict(d.options)
    IN IF IsPositionalFlags(d.name_or_flags)
       THEN IF "required" \in DOMAIN kw THEN "TypeError" ELSE "none"
       ELSE IF \E i \in 1..Len(acts) :
                  acts[i].option_strings \cap SeqToSet(d.name_or_flags) # {}
            THEN "ArgumentError"
            ELSE "none"

RECURSIVE AddArguments(_, _, _)
AddArguments(b, i, acts) ==
    IF i > Len(b)
    THEN [err |-> "none", actions |-> acts]
    ELSE LET e == AddArgumentError(acts, b[i])
         IN IF e # "none"
            THEN [err |-> e, actions |-> acts]
            ELSE AddArguments(b, i + 1, Append(acts, ParserAction(b[i])))

\* The namespace before any token is read: each dest gets the default of the
\* first action that names it.
RECURSIVE InitialNamespace(_, _, _)
InitialNamespace(acts, i, ns) ==
    IF i > Len(acts)
    THEN ns
    ELSE InitialNamespace(acts, i + 1,
            IF acts[i].dest \in DOMAIN ns THEN ns
            ELSE ns @@ (acts[i].dest :> acts[i].default))

SetAttr(ns, key, value) == [k \in DOMAIN ns \cup {key} |-> IF k = key THEN value ELSE ns[k]]

Positionals(acts) == {i \in 1..Len(acts) : acts[i].positional}

\* The index of the k-th positional action.
NthPositional(acts, k) ==
    CHOOSE i \in Positionals(acts) :
        Cardinality({j \in Positionals(acts) : j < i}) = k - 1

\* Tokens i.. of the command line, with `npos` positionals filled and the
\* optional actions `seen`: [err, ns]. The parser exits on an unknown option,
\* on an option without its value, on a surplus word, and at the end on a
\* missing positional or required option.
RECURSIVE Consume(_, _, _, _, _, _)
Consume(acts, tokens, i, ns, npos, seen) ==
    IF i > Len(tokens)
    THEN IF \/ npos < Cardinality(Positionals(acts))
            \/ \E j \in 1..Len(acts) :
                  ~acts[j].positional /\ acts[j].required /\ j \notin seen
         THEN [err |-> "SystemExit", ns |-> ns]
         ELSE [err |-> "none", ns |-> ns]
    ELSE LET t == tokens[i]
         IN IF t.pre # ""
            THEN IF \E j \in 1..Len(acts) : t \in acts[j].option_strings
                 THEN LET j == CHOOSE k \in 1..Len(acts) : t \in acts[k].option_strings
                      IN IF acts[j].action = "store_true"
                         THEN Consume(acts, tokens, i + 1,
                                      SetAttr(ns, acts[j].dest, PyTrue),
                                      npos, seen \cup {j})
                         ELSE IF i + 1 <= Len(tokens) /\ tokens[i + 1].pre = ""
                              THEN Consume(acts, tokens, i + 2,
                                           SetAttr(ns, acts[j].dest, tokens[i + 1].base),
                                           npos, seen \cup {j})
                              ELSE [err |-> "SystemExit", ns |-> ns]
                 ELSE [err |-> "SystemExit", ns |-> ns]
            ELSE IF npos < Cardinality(Positionals(acts))
                 THEN Consume(acts, tokens, i + 1,
                              SetAttr(ns, acts[NthPositional(acts, npos + 1)].dest, t.base),
                              npos + 1, seen)
                 ELSE [err |-> "SystemExit", ns |-> ns]

\* parser.parse_args(tokens, None)
ParserParseArgs(acts, tokens) ==
    Consume(acts, tokens, 1, InitialNamespace(acts, 1, <<>>), 0, {})

\* [argument.name for argument in arguments if argument.name not in args.__dict__]
RECURSIVE MissingNames(_, _)
MissingNames(b, ns) ==
    IF Len(b) = 0
    THEN <<>>
    ELSE IF b[1].name \in DOMAIN ns
         THEN MissingNames(Tail(b), ns)
         ELSE <<b[1].name>> \o MissingNames(Tail(b), ns)

----------------------------------------------------------------------------
\* Operations

NoCall == [op |-> "none", name |-> None, tokens |-> <<>>, kwargs |-> <<>>, kw |-> NoKw]

Init ==
    /\ body = <<>>
    /\ pc = "body"
    /\ clsattrs = ClassDefaults
    /\ init = [required |-> {}, defaults |-> <<>>]
    /\ call = NoCall
    /\ err = "none"
    /\ ret = <<>>
    /\ parsed = <<>>
    /\ missing = <<>>
    /\ declared = <<>>
    /\ firstRead = [n \in Names |-> "unread"]

\* A statement `name: ann = Argument(*flags, ...)` of the class body. A raise
\* in Argument.__init__ ends the class body: no class comes to exist.
DeclareArgument(name, ann, flags, action, default, required, positional) ==
    /\ pc = "body"
    /\ name \notin BodyNames(body)
    /\ LET r == ArgumentInit(name, ann, flags, action, default, required, positional)
       IN /\ err' = r.err
          /\ IF r.err = "none"
             THEN /\ body' = Append(body, r.obj)
                  /\ pc' = "body"
             ELSE /\ body' = body
                  /\ pc' = "aborted"
    /\ call' = [NoCall EXCEPT !.op = "Argument", !.name = name]
    /\ declared' = declared @@ (name :> [ann |-> ann, flags |-> flags, action |-> action,
                                         default |-> default, required |-> required,
                                         positional |-> positional])
    /\ UNCHANGED <<clsattrs, init, ret, parsed, missing, firstRead>>

\* The end of the class statement: ArgumentParser.__init_subclass__(**kw) with at
\* most one keyword kw = <<key, value>>. The base class's hook collects the
\* descriptors (reading each) and generates __init__; then the keywords are applied.
DefineClass(kw) ==
    /\ pc = "body"
    /\ LET r == GetDescriptors(body)
       IN /\ body' = r.body
          /\ firstRead' = FirstReadAfter(firstRead, body, r)
          /\ IF r.err # "none"
             THEN /\ err' = r.err
                  /\ pc' = "failed"
                  /\ UNCHANGED <<init, clsattrs>>
             ELSE /\ init' = BuildInit(r.body)
                  /\ IF kw = NoKw
                     THEN /\ err' = "none"
                          /\ pc' = "defined"
                          /\ UNCHANGED clsattrs
                     ELSE IF KeywordAccepted(kw[1], clsattrs, body)
                          THEN /\ clsattrs' = [clsattrs EXCEPT ![kw[1]] = kw[2]]
                               /\ err' = "none"
                               /\ pc' = "defined"
                          ELSE /\ err' = "AttributeError"
                               /\ pc' = "failed"
                               /\ UNCHANGED clsattrs
    /\ call' = [NoCall EXCEPT !.op = "class", !.kw = kw]
    /\ UNCHANGED <<ret, parsed, missing, declared>>

\* getattr(cls, name) for the i-th declared attribute, once the class object
\* exists (also after a class statement that raised: the descriptor keeps its owner).
ReadAttribute(i) ==
    /\ pc \in {"defined", "failed"}
    /\ i \in 1..Len(body)
    /\ LET g == Get(body[i])
       IN /\ body' = [body EXCEPT ![i] = g.obj]
          /\ err' = g.err
          /\ firstRead' = [firstRead EXCEPT ![body[i].name] =
                              IF @ = "unread" THEN (IF g.err = "none" THEN "ok" ELSE g.err)
                              ELSE @]
    /\ call' = [NoCall EXCEPT !.op = "get", !.name = body[i].name]
    /\ UNCHANGED <<pc, clsattrs, init, ret, parsed, missing, declared>>

\* cls.parse_args(tokens): get_parser (parents, the descriptors, add_argument),
\* the delegated parse, then cls(**namespace) with TypeError turned into
\* AttributeError.
ParseArgs(tokens) ==
    /\ pc = "defined"
    /\ clsattrs["parse_args"] = "<method>"
    /\ clsattrs' = [clsattrs EXCEPT !["parents"] = IF @ = None THEN "[]" ELSE @]
    /\ call' = [NoCall EXCEPT !.op = "parse_args", !.tokens = tokens]
    /\ LET r == GetDescriptors(body)
           p == AddArguments(r.body, 1, <<>>)
           q == ParserParseArgs(p.actions, tokens)
           c == CallInit(init, q.ns)
       IN /\ body' = r.body
          /\ firstRead' = FirstReadAfter(firstRead, body, r)
          /\ pc' = "returned"
          /\ IF r.err # "none" \/ p.err # "none" \/ q.err # "none"
             THEN /\ err' = (IF r.err # "none" THEN r.err
                             ELSE IF p.err # "none" THEN p.err ELSE q.err)
                  /\ ret' = <<>>
                  /\ parsed' = <<>>
                  /\ missing' = <<>>
             ELSE /\ parsed' = <<q.ns>>
                  /\ IF c.err = "none"
                     THEN /\ err' = "none"
                          /\ ret' = c.inst
                          /\ missing' = <<>>
                     ELSE /\ err' = "AttributeError"
                          /\ ret' = <<>>
                          /\ missing' = MissingNames(r.body, q.ns)
    /\ UNCHANGED <<init, declared>>

\* cls(**kwargs), bypassing the parser.
Construct(kwargs) ==
    /\ pc = "defined"
    /\ call' = [NoCall EXCEPT !.op = "construct", !.kwargs = kwargs]
    /\ LET c == CallInit(init, kwargs)
       IN /\ err' = c.err
          /\ ret' = c.inst
    /\ pc' = "returned"
    /\ parsed' = <<>>
    /\ missing' = <<>>
    /\ UNCHANGED <<body, clsattrs, init, declared, firstRead>>

\* The caller drops what the last call returned or raised and goes on to its
\* next statement.
Discard ==
    /\ pc = "returned"
    /\ pc' = "defined"
    /\ call' = NoCall
    /\ err' = "none"
    /\ ret' = <<>>
    /\ parsed' = <<>>
    /\ missing' = <<>>
    /\ UNCHANGED <<body, clsattrs, init, declared, firstRead>>

TokenLists == UNION {[1..n -> TokenChoices] : n \in 0..MaxTokens}
KwargsChoices == UNION {[S -> {"v"}] : S \in SUBSET Names}
KwChoices == {NoKw} \cup {<<k, "Lorem Ipsum">> : k \in KwKeys}

\* A class with the single Argument `a`, declared with any combination of
\* options, and no keyword in the class statement.
Next ==
    \/ \E ann \in Annotations, f \in FlagChoices, a \in ActionChoices,
          d \in DefaultChoices, r \in RequiredChoices, p \in BOOLEAN :
          DeclareArgument("a", ann, f, a, d, r, p)
    \/ DefineClass(NoKw)
    \/ \E i \in 1..Len(body) : ReadAttribute(i)
    \/ \E t \in TokenLists : ParseArgs(t)
    \/ \E k \in KwargsChoices : Construct(k)
    \/ Discard

Spec == Init /\ [][Next]_vars

\* A class with up to two unannotated Arguments that differ in flags, position
\* and default.
NextParser ==
    \/ \E n \in Names, f \in FlagChoices, d \in {Empty, "someone"}, p \in BOOLEAN :
          DeclareArgument(n, None, f, None, d, None, p)
    \/ \E kw \in KwChoices : DefineClass(kw)
    \/ \E i \in 1..Len(body) : ReadAttribute(i)
    \/ \E t \in TokenLists : ParseArgs(t)
    \/ \E k \in KwargsChoices : Construct(k)
    \/ Discard

SpecParser == Init /\ [][NextParser]_vars

----------------------------------------------------------------------------
\* Properties

Descriptor(n) == body[CHOOSE i \in 1..Len(body) : body[i].name = n]

DeclaredBoolean(n) == declared[n].ann \in {"bool", "<class 'bool'>"}

\* A successful read of attribute n has just happened or happened when the
\* class was defined.
Resolved(n) ==
    \/ pc \in {"defined", "returned"}
    \/ call.op = "get" /\ call.name = n /\ err = "none"

InferredFlags(n) ==
    <<IF declared[n].positional THEN Flag("", n) ELSE Flag("--", n)>>

OnlyFlag(tokens, n) == \A i \in 1..Len(tokens) : tokens[i] = Flag("--", n)

\* C1: whenever the namespace of the delegated parser lacks the name of a
\* declared attribute, parse_args returns no instance and raises AttributeError
\* listing exactly the declared names that are absent.
C1_MissingNameRaises ==
    (/\ call.op = "parse_args"
     /\ parsed # <<>>
     /\ \E n \in BodyNames(body) : n \notin DOMAIN parsed[1])
    => /\ ret = <<>>
       /\ err = "AttributeError"
       /\ SeqToSet(missing) = {n \in BodyNames(body) : n \notin DOMAIN parsed[1]}

\* C2: an Argument declared without flags has, after a successful read, exactly
\* the one inferred flag (the bare name when positional, "--name" otherwise) and
\* never any other; explicit flags are kept as declared; once set, the flag
\* tuple is not changed by any later operation.
C2_FlagsResolvedOnce ==
    /\ [](\A n \in BodyNames(body) :
            IF declared[n].flags = <<>>
            THEN /\ Descriptor(n).name_or_flags \in {<<>>, InferredFlags(n)}
                 /\ Resolved(n) => Descriptor(n).name_or_flags = InferredFlags(n)
            ELSE Descriptor(n).name_or_flags = declared[n].flags)
    /\ [][\A i \in 1..Len(body) :
            body[i].name_or_flags # <<>> =>
                body'[i].name_or_flags = body[i].name_or_flags]_vars

C2_Witness ==
    /\ call.op = "get"
    /\ err = "none"
    /\ call.name \in BodyNames(body)
    /\ declared[call.name].flags = <<>>
    /\ declared[call.name].positional
    /\ firstRead[call.name] = "ok"
    /\ Descriptor(call.name).name_or_flags = <<Flag("", call.name)>>

\* C3 as stated: for every boolean-annotated Argument declared with no flags, no
\* action and no default, parse_args of a token list that holds nothing but
\* "--name" yields True when the token is there and False when it is not, and
\* construction without the attribute yields False.
C3_Original ==
    \A n \in BodyNames(body) :
        (/\ DeclaredBoolean(n)
         /\ declared[n].flags = <<>>
         /\ declared[n].action = None
         /\ declared[n].default = Empty)
        => /\ (call.op = "parse_args" /\ OnlyFlag(call.tokens, n)) =>
                  /\ ret # <<>>
                  /\ ret[1][n] = (IF Len(call.tokens) > 0 THEN PyTrue ELSE PyFalse)
           /\ (call.op = "construct" /\ call.kwargs = <<>>) =>
                  /\ ret # <<>>
                  /\ ret[1][n] = PyFalse

\* C3 amended: the same for the Arguments not declared required=True; for one
\* declared required=True, parse_args without the token returns no instance:
\* the delegated parser exits.
C3_BooleanFlag ==
    \A n \in BodyNames(body) :
        (/\ DeclaredBoolean(n)
         /\ declared[n].flags = <<>>
         /\ declared[n].action = None
         /\ declared[n].default = Empty)
        => IF declared[n].required # PyTrue
           THEN /\ (call.op = "parse_args" /\ OnlyFlag(call.tokens, n)) =>
                      /\ ret # <<>>
                      /\ ret[1][n] = (IF Len(call.tokens) > 0 THEN PyTrue ELSE PyFalse)
                /\ (call.op = "construct" /\ call.kwargs = <<>>) =>
                      /\ ret # <<>>
                      /\ ret[1][n] = PyFalse
           ELSE /\ (call.op = "parse_args" /\ call.tokens = <<>>) =>
                      /\ ret = <<>>
                      /\ err = "SystemExit"
                /\ (call.op = "parse_args" /\ OnlyFlag(call.tokens, n)
                        /\ Len(call.tokens) > 0) =>
                      /\ ret # <<>>
                      /\ ret[1][n] = PyTrue

C3_Witness ==
    /\ call.op = "parse_args"
    /\ call.tokens = <<Flag("--", "a")>>
    /\ "a" \in BodyNames(body)
    /\ DeclaredBoolean("a")
    /\ declared["a"].flags = <<>>
    /\ declared["a"].action = None
    /\ declared["a"].default = Empty
    /\ declared["a"].required # PyTrue
    /\ ret # <<>>
    /\ ret[1]["a"] = PyTrue

\* C4 as stated: the first read of a boolean-annotated Argument declared with
\* positional=True raises TypeError, whatever its other options.
C4_Original ==
    \A n \in DOMAIN declared :
        (DeclaredBoolean(n) /\ declared[n].positional /\ firstRead[n] # "unread")
        => firstRead[n] = "TypeError"

\* C4 amended: the first read of a boolean-annotated Argument declared with
\* positional=True raises TypeError when it was declared with no flags and no
\* action, and succeeds when flags or an action were given.
C4_BooleanPositional ==
    \A n \in DOMAIN declared :
        (DeclaredBoolean(n) /\ declared[n].positional /\ firstRead[n] # "unread")
        => IF declared[n].flags = <<>> /\ declared[n].action = None
           THEN firstRead[n] = "TypeError"
           ELSE firstRead[n] = "ok"

C4_Witness ==
    /\ "a" \in DOMAIN declared
    /\ DeclaredBoolean("a")
    /\ declared["a"].positional
    /\ declared["a"].flags = <<>>
    /\ declared["a"].action = None
    /\ call.op = "class"
    /\ err = "TypeError"
    /\ firstRead["a"] = "TypeError"

\* C5: the first read of a boolean-annotated Argument whose declared default is
\* neither a boolean nor None nor unspecified raises ValueError, whatever its
\* other options.
C5_NonBooleanDefaultRaises ==
    \A n \in DOMAIN declared :
        (/\ DeclaredBoolean(n)
         /\ declared[n].default \notin {PyTrue, PyFalse, None, Empty}
         /\ firstRead[n] # "unread")
        => firstRead[n] = "ValueError"

\* C6: Argument(...) with required=True and positional=True raises TypeError and
\* creates no object, whatever the other options; no descriptor is ever both
\* required and positional.
C6_RequiredPositionalRejected ==
    /\ \A i \in 1..Len(body) :
          ~(body[i].options.required = PyTrue /\ body[i].positional)
    /\ (/\ call.op = "Argument"
        /\ declared[call.name].required = PyTrue
        /\ declared[call.name].positional)
       => /\ err = "TypeError"
          /\ pc = "aborted"
          /\ call.name \notin BodyNames(body)

C6_Witness ==
    /\ call.op = "Argument"
    /\ declared[call.name].required = PyTrue
    /\ declared[call.name].positional
    /\ declared[call.name].default = Empty
    /\ err = "TypeError"
    /\ body = <<>>

\* C7: constructing the container without a value for an attribute declared
\* required=True and without default raises TypeError, whatever the annotation.
C7_RequiredEnforced ==
    (/\ call.op = "construct"
     /\ \E n \in BodyNames(body) :
           /\ declared[n].required = PyTrue
           /\ declared[n].default = Empty
           /\ n \notin DOMAIN call.kwargs)
    => err = "TypeError" /\ ret = <<>>

\* C8 as stated: an Argument declared without default holds the sentinel Empty
\* in the descriptor and in the option bag, unless it is boolean-annotated, in
\* which case the resolved default is False.
C8_Original ==
    \A n \in BodyNames(body) :
        declared[n].default = Empty
        => IF DeclaredBoolean(n)
           THEN Resolved(n) => Descriptor(n).default = PyFalse
           ELSE /\ Descriptor(n).default = Empty
                /\ Descriptor(n).options.default = Empty

\* C8 amended: an Argument declared without default holds Empty in the
\* descriptor and in the option bag only when declared required; otherwise both
\* hold None. For a boolean annotation a successful read replaces the
\* descriptor's default by False and leaves the option bag's as constructed.
C8_UnspecifiedDefault ==
    \A n \in BodyNames(body) :
        declared[n].default = Empty
        => LET base == IF declared[n].required = PyTrue THEN Empty ELSE None
           IN /\ Descriptor(n).options.default = base
              /\ IF DeclaredBoolean(n)
                 THEN /\ Descriptor(n).default \in {base, PyFalse}
                      /\ Resolved(n) => Descriptor(n).default = PyFalse
                 ELSE Descriptor(n).default = base

C8_Witness ==
    /\ pc = "defined"
    /\ "a" \in BodyNames(body)
    /\ declared["a"].default = Empty
    /\ declared["a"].required # PyTrue
    /\ ~DeclaredBoolean("a")
    /\ Descriptor("a").default = None
    /\ Descriptor("a").options.default = None

\* C9: a keyword of the class statement is accepted exactly when it names a
\* configuration field, which is then set to the value; any other keyword
\* raises AttributeError.
C9_OnlyConfigKeywords ==
    (call.op = "class" /\ call.kw # NoKw /\ err \notin {"TypeError", "ValueError"})
    => IF call.kw[1] \in ConfigFields
       THEN /\ err = "none"
            /\ pc = "defined"
            /\ clsattrs[call.kw[1]] = call.kw[2]
       ELSE /\ err = "AttributeError"
            /\ pc = "failed"

\* C10: a read that raises during resolution leaves the descriptor as it was,
\* and every later read of the attribute raises the same error.
C10_FailedReadChangesNothing ==
    [][/\ (call'.op \in {"class", "get"} /\ err' \in {"TypeError", "ValueError"})
          => body' = body
       /\ \A n \in BodyNames(body) :
             (/\ firstRead[n] \in {"TypeError", "ValueError"}
              /\ call'.op = "get"
              /\ call'.name = n)
             => err' = firstRead[n]]_vars

====
